---- MODULE Spec2Model ----
(***************************************************************************)
(* State-machine model of chess_tracker.py: a batch job that loads         *)
(* last_game.json, fetches the tracked player's latest games and league    *)
(* standing, posts one webhook message per new game, saves the state       *)
(* file, reposts the league message and commits the state file.            *)
(*                                                                         *)
(* Python's None and absent dictionary keys are modelled as the empty      *)
(* sequence <<>>, a present value v as the one-element sequence <<v>>.     *)
(***************************************************************************)
EXTENDS Integers, Sequences, FiniteSets, TLC

\* ------------------------------------------------------------------ bounds
MaxRuns == 2        \* runs of the job in one behaviour
MaxGames == 2       \* length of the game list one archive page returns

\* --------------------------------------------------------- program constants
Day == 86400        \* the deadline window, in seconds
MaxAttempts == 3    \* range(3) of both delivery loops

None == <<>>
Some(v) == <<v>>
IsNone(o) == o = <<>>
Val(o) == o[1]

\* ADVANCEMENT_THRESHOLDS: league code -> cutoff rank, None for the top league.
ADVANCEMENT_THRESHOLDS ==
    [code \in {"wood", "stone", "bronze", "silver", "crystal", "elite",
               "champion", "legend"} |->
        CASE code = "wood" -> Some(20)
          [] code = "stone" -> Some(15)
          [] code = "bronze" -> Some(10)
          [] code = "silver" -> Some(5)
          [] code = "crystal" -> Some(3)
          [] code = "elite" -> Some(3)
          [] code = "champion" -> Some(1)
          [] code = "legend" -> None]

\* ------------------------------------------------------------ pure helpers
\* A URL is the sequence of its "/"-separated parts; rstrip("/") drops the
\* trailing empty parts, and split of the empty string yields [""].
RECURSIVE rstripSlash(_)
rstripSlash(url) ==
    IF url # <<>> /\ url[Len(url)] = ""
    THEN rstripSlash(SubSeq(url, 1, Len(url) - 1))
    ELSE url

extract_game_id(url) ==
    LET parts == rstripSlash(url)
    IN IF parts = <<>> THEN "" ELSE parts[Len(parts)]

\* A time control is [numeric, main_time]: whether int(tc.split('+')[0])
\* parses, and its value.
categorize_time_control(tc) ==
    IF ~tc.numeric THEN "unknown"
    ELSE IF tc.main_time < 180 THEN "bullet"
    ELSE IF tc.main_time < 480 THEN "blitz"
    ELSE IF tc.main_time < 1500 THEN "rapid"
    ELSE "daily"

\* dict.get(key) on a dictionary modelled as a function with a partial domain.
DictGet(d, k) == IF k \in DOMAIN d THEN Some(d[k]) ELSE None
DictSet(d, k, v) == [x \in DOMAIN d \cup {k} |-> IF x = k THEN v ELSE d[x]]
EmptyDict == [x \in {} |-> 0]

Contains(seq, x) == \E i \in 1..Len(seq) : seq[i] = x

\* ---------------------------------------------------------- bounded inputs
CHESS_USERNAME == "inseem"
Lower(name) == IF name = "Inseem" THEN "inseem" ELSE name

Side(username, rating, rating_change, result) ==
    [username |-> username, rating |-> rating,
     rating_change |-> rating_change, result |-> result]

GameUrl(kind, id) == <<"https:", "", "www.chess.com", "game", kind, id>>
Tc(seconds) == [numeric |-> TRUE, main_time |-> seconds]

\* Raw game records as the archive page returns them: a rapid game without
\* rating_change, and a rapid game that reports a change of 0 (the tracked
\* player is Black there, under a name that differs in case).
GameA == [url |-> GameUrl("live", "101"), time_control |-> Tc(600),
          white |-> Side("inseem", Some(1200), None, "win"),
          black |-> Side("rival", Some(1180), None, "resigned")]
GameB == [url |-> GameUrl("live", "102"), time_control |-> Tc(600),
          white |-> Side("rival", Some(1185), Some(0), "agreed"),
          black |-> Side("Inseem", Some(1215), Some(0), "agreed")]
AllGames == {GameA, GameB}

\* The game of the end-to-end scenario: the tracked player is White and
\* won, 1500 against 1480, no rating_change, time_control "600".
GameW == [url |-> GameUrl("live", "201"), time_control |-> Tc(600),
          white |-> Side("inseem", Some(1500), None, "win"),
          black |-> Side("rival", Some(1480), None, "checkmated")]

\* A blitz game that reports its rating change.
GameC == [url |-> GameUrl("live", "103"), time_control |-> Tc(300),
          white |-> Side("rival", Some(905), Some(-8), "resigned"),
          black |-> Side("inseem", Some(900), Some(8), "win")]

\* A daily game whose URL ends in the same number as GameA's live game;
\* its time_control "1/86400" is no integer.
GameD == [url |-> GameUrl("daily", "101"),
          time_control |-> [numeric |-> FALSE, main_time |-> 0],
          white |-> Side("rival", Some(1310), None, "win"),
          black |-> Side("inseem", Some(1300), None, "checkmated")]
KnownGames == AllGames \cup {GameW, GameC, GameD}

RECURSIVE SeqsUpTo(_, _)
SeqsUpTo(S, n) ==
    IF n = 0 THEN {<<>>}
    ELSE LET shorter == SeqsUpTo(S, n - 1)
         IN shorter \cup {Append(q, x) : q \in {r \in shorter : Len(r) = n - 1}, x \in S}

GameLists(pool) == SeqsUpTo(pool, MaxGames)
GameIds == {extract_game_id(g.url) : g \in KnownGames}

\* Seconds between two runs of the job: the clock reads RunGap, 2 * RunGap,
\* ... in successive runs.
RunGap == 12 * 60 * 60

\* League period end times (epoch seconds): EndTimeA lies after the second
\* run and less than a day after the first, EndTimeB more than a day after
\* the first run and less than a day after the second.  The standings the league endpoint may
\* return: division.league.code, stats.ranking (None when int(ranking) does
\* not parse, e.g. "N/A") and division.endTime (None when the key is absent).
EndTimeA == 2 * RunGap + 4 * 60 * 60
EndTimeB == 3 * RunGap + 4 * 60 * 60
EndTimes == {EndTimeA, EndTimeB}
Standing(code, ranking, endTime) ==
    [code |-> code, ranking |-> ranking, endTime |-> endTime]
Standings == {Standing("wood", Some(25), Some(EndTimeA)),
              Standing("wood", Some(25), Some(EndTimeB)),
              Standing("wood", Some(25), None)}

\* --------------------------------------------------------- persisted state
\* The dictionary stored in last_game.json.  processed_games is None when
\* the key is absent, else [is_list, items]: is_list is FALSE for a value of
\* the wrong shape (JSON null).
ListOf(items) == [is_list |-> TRUE, items |-> items]
NotAList == [is_list |-> FALSE, items |-> <<>>]
EmptyData == [processed_games |-> None, last_rating |-> EmptyDict,
              alert_info |-> None, league_message_id |-> None,
              last_update |-> None]

\* The file: missing, not JSON (an empty file included), JSON that is not
\* an object, or a JSON object.
FileOf(kind, data) == [kind |-> kind, data |-> data]
DictFile(data) == FileOf("dict", data)
InitialFiles == {FileOf("missing", EmptyData),
                 FileOf("invalid_json", EmptyData),
                 FileOf("non_dict", EmptyData),
                 DictFile(EmptyData),
                 DictFile([EmptyData EXCEPT !.processed_games = Some(NotAList)])}

\* The state file after a run that processed GameC alone, with no standing
\* and no webhook address.
AfterGameC ==
    [EmptyData EXCEPT !.processed_games = Some(ListOf(<<"103">>)),
                      !.last_rating = DictSet(EmptyDict, "blitz", 900),
                      !.last_update = Some(0)]
CategoryFiles == {DictFile(EmptyData), DictFile(AfterGameC),
                  DictFile([EmptyData EXCEPT !.processed_games = Some(NotAList)])}

load_last_game_data(f) == IF f.kind = "dict" THEN f.data ELSE EmptyData

\* The ids a dictionary's processed_games holds.
IdsOf(data) ==
    IF IsNone(data.processed_games) THEN {}
    ELSE LET items == Val(data.processed_games).items
         IN {items[i] : i \in 1..Len(items)}

\* ------------------------------------------------------- game extraction
determine_game_details(game) ==
    LET asWhite == Lower(game.white.username) = Lower(CHESS_USERNAME)
        asBlack == Lower(game.black.username) = Lower(CHESS_USERNAME)
        me == IF asWhite THEN game.white ELSE game.black
        other == IF asWhite THEN game.black ELSE game.white
    IN IF asWhite \/ asBlack
       THEN [opponent |-> other.username,
             result |-> IF me.result = "win" THEN "Win"
                        ELSE IF other.result = "win" THEN "Loss" ELSE "Draw",
             game_url |-> game.url,
             current_rating |-> IF IsNone(me.rating) THEN 0 ELSE Val(me.rating),
             raw_rating_change |-> me.rating_change,
             raw_time_control |-> game.time_control]
       ELSE [opponent |-> "Unknown", result |-> "Draw", game_url |-> game.url,
             current_rating |-> 0, raw_rating_change |-> None,
             raw_time_control |-> game.time_control]

\* Variant: "if raw_rating_change:" instead of "is not None", so that a
\* reported change of 0 falls through to the baseline.
RatingChangeTruthy(raw_rating_change, previous_rating, current_rating) ==
    IF ~IsNone(raw_rating_change) /\ Val(raw_rating_change) # 0
    THEN Val(raw_rating_change)
    ELSE IF ~IsNone(previous_rating) THEN current_rating - Val(previous_rating)
    ELSE 0

\* main, lines 402-409: the rating change shown for a new game.
RatingChange(raw_rating_change, previous_rating, current_rating) ==
    IF ~IsNone(raw_rating_change) THEN Val(raw_rating_change)
    ELSE IF ~IsNone(previous_rating) THEN current_rating - Val(previous_rating)
    ELSE 0

\* ------------------------------------------------------ remote responses
\* fetch_latest_games: the archive index answers with a status and a list of
\* archives, the latest archive page with a status and its games; raises
\* stands for requests.get raising (no handler in fetch_latest_games).
ArchiveResponses(pool) ==
    [raises : BOOLEAN, index_status : {200, 410, 500}, has_archives : BOOLEAN,
     page_status : {200, 404}, games : GameLists(pool)]

\* Which of its exits fetch_latest_games took.
FetchStatus(r) ==
    IF r.raises THEN "raised"
    ELSE IF r.index_status = 410 THEN "gone"
    ELSE IF r.index_status # 200 THEN "index_error"
    ELSE IF ~r.has_archives THEN "no_archives"
    ELSE IF r.page_status # 200 THEN "page_error"
    ELSE IF r.games = <<>> THEN "no_games"
    ELSE "games"

fetch_latest_games(r) ==
    IF r.index_status = 410 THEN <<>>
    ELSE IF r.index_status # 200 THEN <<>>
    ELSE IF ~r.has_archives THEN <<>>
    ELSE IF r.page_status # 200 THEN <<>>
    ELSE r.games

\* fetch_league_info: a 200 answer with "division" and "stats" is returned,
\* every other answer and every exception yields None.
LeagueResponses ==
    [status : {200}, well_formed : {TRUE}, raises : {FALSE}, body : Standings]
    \cup [status : {200, 500}, well_formed : {FALSE}, raises : BOOLEAN,
          body : {Standing("wood", None, None)}]

fetch_league_info(r) ==
    IF r.raises THEN None
    ELSE IF r.status = 200 /\ r.well_formed THEN Some(r.body)
    ELSE None

\* Answers of the webhook to a POST and to a DELETE.
PostResponses == {"accepted", "throttled", "rejected", "raises"}
LeaguePostResponses ==
    {"accepted_with_id", "accepted_without_id", "accepted_bad_json",
     "throttled", "rejected", "raises"}
DeleteResponses == {"deleted", "rejected", "raises"}

\* ------------------------------------------------------------------ state
VARIABLES
    remote_games,       \* the games the player's latest archive page may list
    committed,          \* last_game.json as pushed to the repository
    file,               \* last_game.json in the working copy
    now,                \* int(time.time())
    runs,               \* runs started so far
    pc,                 \* position of the running job, "idle" between runs
    outcome,            \* how the last run ended
    fetch_status,       \* the exit fetch_latest_games took in this run
    webhook_url,        \* whether WEBHOOK_URL is set in the job's environment
    loaded,             \* the dictionary main loaded at line 385
    processed_games,    \* main's processed_games
    last_rating_dict,   \* main's last_rating_dict
    alert_info,         \* main's alert_info (None: no alert record)
    games,              \* the fetched game list
    idx,                \* position of the for loop in games
    league_info,        \* result of fetch_league_info
    new_game_found,     \* main's new_game_found
    pending,            \* arguments of the send_discord_webhook call under way
    events,             \* arguments of this run's send_discord_webhook calls, in order
    attempt,            \* attempt number of the delivery loop under way
    league_data,        \* update_league_webhook's data
    alert_needed,       \* update_league_webhook's alert_needed
    delivered,          \* webhook: accepted game messages per game id
    lastPost,           \* webhook: the last accepted game message
    league_msgs,        \* webhook: ids of the league messages that exist
    next_message_id,    \* webhook: id the next accepted message gets
    alerts,             \* webhook: accepted messages with an Alert, per end time
    league_posts,       \* webhook: league messages accepted in this run
    failed,             \* this run's games whose delivery failed: [game_id, category]
    resp,               \* the answer to the POST the last step made, "none" otherwise
    recon               \* inputs and results of the last observed reconciliation

persistVars == <<committed, file>>
envVars == <<remote_games, webhook_url>>
mainVars == <<loaded, processed_games, last_rating_dict, alert_info, games, idx,
              league_info, new_game_found, pending, events, attempt>>
leagueVars == <<league_data, alert_needed>>
sinkVars == <<delivered, lastPost, league_msgs, next_message_id, alerts,
              league_posts, failed>>
vars == <<remote_games, committed, file, now, runs, pc, outcome, fetch_status, webhook_url, loaded,
          processed_games, last_rating_dict, alert_info, games, idx,
          league_info, new_game_found, pending, events, attempt, league_data,
          alert_needed, delivered, lastPost, league_msgs, next_message_id,
          alerts, league_posts, failed, resp, recon>>

NoPending == None

\* The state before a run of the job: the games the archive may list, the
\* state files the repository may hold, and the runs made before.
Start(pool, files, runs_done) ==
    /\ remote_games = pool
    /\ committed \in files
    /\ file = committed
    /\ now = 0
    /\ runs = runs_done
    /\ pc = "idle"
    /\ outcome = "none"
    /\ fetch_status = "none"
    /\ webhook_url \in BOOLEAN
    /\ loaded = EmptyData
    /\ processed_games = ListOf(<<>>)
    /\ last_rating_dict = EmptyDict
    /\ alert_info = None
    /\ games = <<>>
    /\ idx = 1
    /\ league_info = None
    /\ new_game_found = FALSE
    /\ pending = NoPending
    /\ events = <<>>
    /\ attempt = 0
    /\ league_data = EmptyData
    /\ alert_needed = FALSE
    /\ delivered = [id \in GameIds |-> 0]
    /\ lastPost = None
    /\ league_msgs = {}
    /\ next_message_id = 1
    /\ alerts = [t \in EndTimes |-> 0]
    /\ league_posts = 0
    /\ failed = {}
    /\ resp = "none"
    /\ recon = None

Init == Start(AllGames, InitialFiles, 0)

\* No request was made by this step.
NoRequest == resp' = "none"

\* The process is gone: its locals no longer exist.
ProcessEnds(how) ==
    /\ pc' = "idle"
    /\ outcome' = how
    /\ processed_games' = ListOf(<<>>)
    /\ last_rating_dict' = EmptyDict
    /\ alert_info' = None
    /\ games' = <<>>
    /\ idx' = 1
    /\ league_info' = None
    /\ pending' = NoPending
    /\ events' = <<>>
    /\ attempt' = 0
    /\ league_data' = EmptyData
    /\ alert_needed' = FALSE

\* An uncaught exception ends the process with a traceback.
Crash(exception) == ProcessEnds(exception)

\* The exit status of the process: 0 when main returns, 1 when an exception
\* leaves it.
ExitStatus(how) == IF how \in {"no_games", "completed", "git_failed"} THEN 0 ELSE 1

\* ------------------------------------------------------------------- main
\* A run starts on a checkout of the repository; main loads the state file
\* (lines 385-388).
StartRun ==
    /\ NoRequest
    /\ pc = "idle"
    /\ runs < MaxRuns
    /\ runs' = runs + 1
    /\ now' = now + RunGap
    /\ file' = committed
    /\ LET data == load_last_game_data(committed)
       IN /\ loaded' = data
          /\ processed_games' = IF IsNone(data.processed_games) THEN ListOf(<<>>)
                                ELSE Val(data.processed_games)
          /\ last_rating_dict' = data.last_rating
          /\ alert_info' = data.alert_info
    /\ pc' = "fetch_games"
    /\ outcome' = "running"
    /\ fetch_status' = "none"
    /\ new_game_found' = FALSE
    /\ league_posts' = 0
    /\ failed' = {}
    /\ lastPost' = None
    /\ UNCHANGED <<committed, envVars, recon, games, idx, league_info, pending, events,
                   attempt, leagueVars, delivered, league_msgs,
                   next_message_id, alerts>>

\* Variant: main goes on with an empty game list.
NoGamesIgnored(fetched) == FALSE

\* main, line 390: "if not games".
NoGames(fetched) == fetched = <<>>

\* main, lines 389-391: fetch the games, return when there are none.
MainFetchGames ==
    /\ NoRequest
    /\ pc = "fetch_games"
    /\ \E r \in ArchiveResponses(remote_games) :
          LET fetched == fetch_latest_games(r)
          IN IF r.raises
             THEN /\ Crash("fetch_raised")
                  /\ fetch_status' = FetchStatus(r)
                  /\ UNCHANGED new_game_found
             ELSE IF NoGames(fetched)
             THEN /\ ProcessEnds("no_games")
                  /\ fetch_status' = FetchStatus(r)
                  /\ UNCHANGED new_game_found
             ELSE /\ games' = fetched
                  /\ fetch_status' = FetchStatus(r)
                  /\ pc' = "fetch_league"
                  /\ UNCHANGED <<outcome, processed_games, last_rating_dict,
                                 alert_info, idx, league_info, new_game_found,
                                 pending, events, attempt, leagueVars>>
    /\ UNCHANGED <<persistVars, now, runs, envVars, recon, loaded, sinkVars>>

\* main, lines 392-393.
MainFetchLeague ==
    /\ NoRequest
    /\ pc = "fetch_league"
    /\ \E r \in LeagueResponses : league_info' = fetch_league_info(r)
    /\ new_game_found' = FALSE
    /\ idx' = 1
    /\ pc' = "loop"
    /\ UNCHANGED <<persistVars, now, runs, fetch_status, outcome, envVars, recon, loaded,
                   processed_games, last_rating_dict, alert_info, games,
                   pending, events, attempt, leagueVars, sinkVars>>

\* Variant: dict.setdefault, a stored baseline is kept.
SetBaselineIfAbsent(dict, category, current_rating) ==
    IF category \in DOMAIN dict THEN dict
    ELSE DictSet(dict, category, current_rating)

\* main, line 410: last_rating_dict[category] = current_rating.
SetBaseline(dict, category, current_rating) ==
    DictSet(dict, category, current_rating)

\* main, lines 411-423: the alert record after one new game, and add_alert.
EvaluateAlert(info, league, current_time) ==
    IF IsNone(league) THEN [alert_info |-> info, add_alert |-> FALSE]
    ELSE LET division == Val(league)
             current_end_time == IF IsNone(division.endTime) THEN 0
                                 ELSE Val(division.endTime)
             time_left == current_end_time - current_time
             reset == IF IsNone(info) \/ Val(info).league_endTime # current_end_time
                      THEN [league_endTime |-> current_end_time, alert_sent |-> FALSE]
                      ELSE Val(info)
             add_alert == time_left < Day /\ ~reset.alert_sent
         IN [alert_info |-> Some([reset EXCEPT !.alert_sent = @ \/ add_alert]),
             add_alert |-> add_alert]

\* Variant: the id is looked up in the list as loaded, not in the list the
\* loop appends to.
AlreadyProcessedAtLoad(game_id, processed) == game_id \in IdsOf(loaded)

\* main, line 397: whether the loop skips the game.
AlreadyProcessed(game_id, processed) == Contains(processed.items, game_id)

CurrentGame == games[idx]
CurrentId == extract_game_id(CurrentGame.url)

\* main, line 397 on a processed_games that is no list: "in" raises TypeError.
LoopTypeError ==
    /\ NoRequest
    /\ pc = "loop"
    /\ idx <= Len(games)
    /\ ~processed_games.is_list
    /\ Crash("type_error")
    /\ UNCHANGED <<persistVars, now, runs, fetch_status, envVars, recon, loaded, new_game_found,
                   sinkVars>>

\* main, lines 394-398: a game whose id is in processed_games is passed over.
LoopSkip ==
    /\ NoRequest
    /\ pc = "loop"
    /\ idx <= Len(games)
    /\ processed_games.is_list
    /\ AlreadyProcessed(CurrentId, processed_games)
    /\ idx' = idx + 1
    /\ UNCHANGED <<persistVars, now, runs, fetch_status, pc, outcome, envVars, recon, loaded,
                   processed_games, last_rating_dict, alert_info, games,
                   league_info, new_game_found, pending, events, attempt, leagueVars,
                   sinkVars>>

\* main, lines 399-425: a new game, up to the call of send_discord_webhook.
LoopProcess ==
    /\ NoRequest
    /\ pc = "loop"
    /\ idx <= Len(games)
    /\ processed_games.is_list
    /\ ~AlreadyProcessed(CurrentId, processed_games)
    /\ LET d == determine_game_details(CurrentGame)
           category == categorize_time_control(d.raw_time_control)
           rating_change == RatingChange(d.raw_rating_change,
                                         DictGet(last_rating_dict, category),
                                         d.current_rating)
           alert == EvaluateAlert(alert_info, league_info, now)
           args == [game_id |-> CurrentId, opponent |-> d.opponent,
                    game_url |-> d.game_url, rating_change |-> rating_change,
                    result |-> d.result, category |-> category,
                    current_rating |-> d.current_rating,
                    add_alert |-> alert.add_alert]
       IN /\ last_rating_dict' = SetBaseline(last_rating_dict, category, d.current_rating)
          /\ alert_info' = alert.alert_info
          /\ pending' = Some(args)
          /\ events' = Append(events, args)
    /\ attempt' = 1
    /\ pc' = "send"
    /\ UNCHANGED <<persistVars, now, runs, fetch_status, outcome, envVars, recon, loaded,
                   processed_games, games, idx, league_info, new_game_found,
                   leagueVars, sinkVars>>

\* send_discord_webhook, lines 324-346: the embed that is posted.  The
\* function takes league_info and add_alert and uses neither.
GameEmbed(args) ==
    [url |-> args.game_url, opponent |-> args.opponent,
     rating_change |-> args.rating_change, current_rating |-> args.current_rating,
     category |-> args.category, result |-> args.result]

\* main, lines 426-427, after send_discord_webhook has returned.
AfterSend ==
    /\ processed_games' = [processed_games EXCEPT
                             !.items = Append(@, Val(pending).game_id)]
    /\ new_game_found' = TRUE
    /\ idx' = idx + 1
    /\ pending' = NoPending
    /\ attempt' = 0
    /\ pc' = "loop"
    /\ UNCHANGED events

\* send_discord_webhook, lines 320-323: without WEBHOOK_URL nothing is sent.
SendNoWebhook ==
    /\ NoRequest
    /\ pc = "send"
    /\ ~webhook_url
    /\ AfterSend
    /\ UNCHANGED <<persistVars, now, runs, fetch_status, outcome, envVars, recon, loaded,
                   last_rating_dict, alert_info, games, league_info,
                   leagueVars, sinkVars>>

\* Variant: range(4), one more attempt.
LastAttemptOfFour(attempt_no) == attempt_no >= MaxAttempts + 1

\* "for attempt in range(3)" of both delivery loops: whether the attempt
\* under way is the last one.
LastAttempt(attempt_no) == attempt_no >= MaxAttempts

\* send_discord_webhook, lines 354-365: one POST of the delivery loop.
SendAttempt ==
    /\ pc = "send"
    /\ webhook_url
    /\ \E answer \in PostResponses :
        /\ resp' = answer
        /\ LET id == Val(pending).game_id
              dropped == [game_id |-> id, category |-> Val(pending).category]
              last == LastAttempt(attempt)
          IN CASE answer = "accepted" ->
                    /\ delivered' = [delivered EXCEPT ![id] = @ + 1]
                    /\ lastPost' = Some(GameEmbed(Val(pending)))
                    /\ AfterSend
                    /\ UNCHANGED <<outcome, last_rating_dict, alert_info, games,
                                   league_info, leagueVars, failed>>
               [] answer = "throttled" /\ ~last ->
                    /\ attempt' = attempt + 1
                    /\ UNCHANGED <<pc, outcome, processed_games, last_rating_dict,
                                   alert_info, games, idx, league_info,
                                   new_game_found, pending, events, leagueVars,
                                   delivered, lastPost, failed>>
               [] answer = "throttled" /\ last ->
                    /\ failed' = failed \cup {dropped}
                    /\ AfterSend
                    /\ UNCHANGED <<outcome, last_rating_dict, alert_info, games,
                                   league_info, leagueVars, delivered, lastPost>>
               [] answer = "rejected" ->
                    /\ failed' = failed \cup {dropped}
                    /\ AfterSend
                    /\ UNCHANGED <<outcome, last_rating_dict, alert_info, games,
                                   league_info, leagueVars, delivered, lastPost>>
               [] answer = "raises" ->
                    /\ Crash("send_raised")
                    /\ UNCHANGED <<new_game_found, delivered, lastPost, failed>>
    /\ UNCHANGED <<persistVars, now, runs, fetch_status, envVars, recon, loaded, league_msgs,
                   next_message_id, alerts, league_posts>>

\* save_last_game_data: the file holds the dictionary.
save_last_game_data(data) == DictFile(data)

\* main, lines 428-430: the loop is over, the state is written.
SaveState ==
    /\ NoRequest
    /\ pc = "loop"
    /\ idx > Len(games)
    /\ file' = save_last_game_data(
                 [loaded EXCEPT !.processed_games = Some(processed_games),
                                !.last_rating = last_rating_dict,
                                !.alert_info = alert_info])
    /\ pc' = "league_update"
    /\ UNCHANGED <<committed, now, runs, fetch_status, outcome, envVars, mainVars,
                   leagueVars, sinkVars>>

MainSave == SaveState /\ UNCHANGED recon

\* What the loop was given and what it produced, as it stands when the loop
\* is over.
Reconciliation ==
    [prev_state |-> [processed_games |-> loaded.processed_games,
                     last_rating |-> loaded.last_rating,
                     alert_info |-> loaded.alert_info],
     ordered_games |-> games, standing |-> league_info,
     events |-> events,
     next_state |-> [processed_games |-> processed_games,
                     last_rating |-> last_rating_dict,
                     alert_info |-> alert_info]]

\* The same step, with the reconciliation noted for comparison with the
\* next run's.
MainSaveObserved == SaveState /\ recon' = Some(Reconciliation)

\* --------------------------------------------------- update_league_webhook
\* Lines 259-267: the Alert field is added when the rank is below the
\* league's cutoff and the period ends within a day.
AlertNeeded(division, current_time) ==
    LET cutoff == IF division.code \in DOMAIN ADVANCEMENT_THRESHOLDS
                  THEN ADVANCEMENT_THRESHOLDS[division.code] ELSE None
    IN /\ ~IsNone(division.ranking)
       /\ ~IsNone(cutoff)
       /\ Val(division.ranking) > Val(cutoff)
       /\ ~IsNone(division.endTime)
       /\ Val(division.endTime) - current_time < Day

\* delete_league_message: the webhook deletes a message that exists, or
\* refuses; only a 200/204 answer means the message is gone.
DeleteAnswers(message_id) ==
    IF message_id \in league_msgs THEN DeleteResponses
    ELSE DeleteResponses \ {"deleted"}

\* Lines 232-267: reload the state, delete the stored league message, then
\* build the new message.  league_info.get raises AttributeError on None.
LeagueUpdateStart ==
    /\ NoRequest
    /\ pc = "league_update"
    /\ LET data == load_last_game_data(file)
           stored == data.league_message_id
           deleting == ~IsNone(stored) /\ webhook_url
       IN \E del \in (IF deleting THEN DeleteAnswers(Val(stored)) ELSE {"none"}) :
            /\ league_msgs' = IF del = "deleted" THEN league_msgs \ {Val(stored)}
                              ELSE league_msgs
            /\ IF del = "raises"
               THEN Crash("delete_raised")
               ELSE IF ~webhook_url
               THEN /\ pc' = "commit"
                    /\ UNCHANGED <<outcome, processed_games, last_rating_dict,
                                   alert_info, games, idx, league_info, pending, events,
                                   attempt, leagueVars>>
               ELSE IF IsNone(league_info)
               THEN Crash("attribute_error")
               ELSE /\ league_data' = data
                    /\ alert_needed' = AlertNeeded(Val(league_info), now)
                    /\ attempt' = 1
                    /\ pc' = "league_post"
                    /\ UNCHANGED <<outcome, processed_games, last_rating_dict,
                                   alert_info, games, idx, league_info, pending, events>>
    /\ UNCHANGED <<persistVars, now, runs, fetch_status, envVars, recon, loaded, new_game_found,
                   delivered, lastPost, next_message_id, alerts, league_posts,
                   failed>>

\* Variant: the league step writes a dictionary of its own instead of the
\* reloaded one.
LeagueStampFresh(data, new_message_id, current_time) ==
    [EmptyData EXCEPT !.league_message_id = Some(new_message_id),
                      !.last_update = Some(current_time)]

\* Lines 303-305: the reloaded dictionary with the new message recorded.
LeagueStamp(data, new_message_id, current_time) ==
    [data EXCEPT !.league_message_id = Some(new_message_id),
                 !.last_update = Some(current_time)]

\* Lines 294-316: one POST of the league message.
LeaguePostAttempt ==
    /\ pc = "league_post"
    /\ \E answer \in LeaguePostResponses :
        /\ resp' = answer
        /\ LET accepted == answer \in {"accepted_with_id", "accepted_without_id",
                                    "accepted_bad_json"}
              last == LastAttempt(attempt)
              new_message_id == IF answer = "accepted_with_id" THEN next_message_id
                                ELSE 0
              end_time == Val(league_info).endTime
          IN CASE accepted ->
                    /\ league_msgs' = league_msgs \cup {next_message_id}
                    /\ next_message_id' = next_message_id + 1
                    /\ league_posts' = league_posts + 1
                    /\ alerts' = IF alert_needed
                                 THEN [alerts EXCEPT ![Val(end_time)] = @ + 1]
                                 ELSE alerts
                    /\ file' = IF answer = "accepted_bad_json" THEN file
                               ELSE save_last_game_data(
                                      LeagueStamp(league_data, new_message_id, now))
                    /\ pc' = "commit"
                    /\ UNCHANGED <<outcome, processed_games, last_rating_dict,
                                   alert_info, games, idx, league_info, pending, events,
                                   attempt, leagueVars>>
               [] answer = "throttled" /\ ~last ->
                    /\ attempt' = attempt + 1
                    /\ UNCHANGED <<file, pc, outcome, processed_games,
                                   last_rating_dict, alert_info, games, idx,
                                   league_info, pending, events, leagueVars, league_msgs,
                                   next_message_id, league_posts, alerts>>
               [] answer = "throttled" /\ last ->
                    /\ pc' = "commit"
                    /\ UNCHANGED <<file, outcome, processed_games,
                                   last_rating_dict, alert_info, games, idx,
                                   league_info, pending, events, attempt, leagueVars,
                                   league_msgs, next_message_id, league_posts,
                                   alerts>>
               [] answer = "rejected" ->
                    /\ pc' = "commit"
                    /\ UNCHANGED <<file, outcome, processed_games,
                                   last_rating_dict, alert_info, games, idx,
                                   league_info, pending, events, attempt, leagueVars,
                                   league_msgs, next_message_id, league_posts,
                                   alerts>>
               [] answer = "raises" ->
                    /\ Crash("league_post_raised")
                    /\ UNCHANGED <<file, league_msgs, next_message_id,
                                   league_posts, alerts>>
    /\ UNCHANGED <<committed, now, runs, fetch_status, envVars, recon, loaded, new_game_found,
                   delivered, lastPost, failed>>

\* -------------------------------------------------------- commit_last_game
\* main line 432 and commit_last_game: reload, stamp, save, then git add,
\* commit and push; a failing git command is caught and only logged.
CommitLastGame ==
    /\ NoRequest
    /\ pc = "commit"
    /\ LET data == load_last_game_data(file)
           saved == save_last_game_data([data EXCEPT !.last_update = Some(now)])
       IN /\ file' = saved
          /\ \E git_ok \in BOOLEAN :
                /\ committed' = IF git_ok THEN saved ELSE committed
                /\ ProcessEnds(IF git_ok THEN "completed" ELSE "git_failed")
    /\ UNCHANGED <<now, runs, fetch_status, envVars, recon, loaded, new_game_found, sinkVars>>

Next ==
    \/ StartRun
    \/ MainFetchGames
    \/ MainFetchLeague
    \/ LoopTypeError
    \/ LoopSkip
    \/ LoopProcess
    \/ SendNoWebhook
    \/ SendAttempt
    \/ MainSave
    \/ LeagueUpdateStart
    \/ LeaguePostAttempt
    \/ CommitLastGame

Spec == Init /\ [][Next]_vars

\* The job is one sequential process and every request it makes is answered
\* or raises: a step that is possible is eventually taken.  The behaviours
\* start before the last two runs of the job.
LastRuns == Start(AllGames, InitialFiles, MaxRuns - 2)
FairSpec == LastRuns /\ [][Next]_vars /\ WF_vars(Next)

\* The job with each run's reconciliation noted when its loop is over.
NextObserved ==
    \/ StartRun
    \/ MainFetchGames
    \/ MainFetchLeague
    \/ LoopTypeError
    \/ LoopSkip
    \/ LoopProcess
    \/ SendNoWebhook
    \/ SendAttempt
    \/ MainSaveObserved
    \/ LeagueUpdateStart
    \/ LeaguePostAttempt
    \/ CommitLastGame

SpecObserved == Init /\ [][NextObserved]_vars

\* The job when the archive holds the scenario's game only.
ScenarioStart == Start({GameW}, InitialFiles, 0)
SpecScenario == ScenarioStart /\ [][Next]_vars

\* The job when the archive holds a live and a daily game.
UrlsStart == Start({GameA, GameD}, InitialFiles, 0)
SpecUrls == UrlsStart /\ [][Next]_vars

\* The last run of the job when the archive holds games of two categories.
CategoriesStart == Start({GameA, GameB, GameC}, CategoryFiles, MaxRuns - 1)
SpecCategories == CategoriesStart /\ [][Next]_vars

\* ================================================================ claims
CommittedData == load_last_game_data(committed)
FileData == load_last_game_data(file)

\* C1: across runs, the notification of any game id is accepted by the
\* webhook at most once, also when a run ends early or its push fails.
C1_NotifiedAtMostOnce == \A id \in GameIds : delivered[id] <= 1

\* C2: every id in the state loaded at the start of a run is in the state
\* file after every step of the run (main's save, the league step's reload
\* and save, commit_last_game's reload and save) and in the committed state.
C2_ProcessedIdsKept ==
    /\ IdsOf(loaded) \subseteq IdsOf(FileData)
    /\ IdsOf(loaded) \subseteq IdsOf(CommittedData)

\* A completed run that loaded ids, posted a league message (so all three
\* saves ran) and added an id.
C2_Witness ==
    /\ pc = "idle"
    /\ outcome = "completed"
    /\ league_posts = 1
    /\ IdsOf(loaded) # {}
    /\ IdsOf(loaded) # IdsOf(FileData)
    /\ file = committed

\* C3: a fetched game whose id is in the running processed list is passed
\* over: the loop moves to the next game, nothing is sent and neither the
\* baselines, the alert record, the processed list nor the files change.
C3_ProcessedGameSkipped ==
    [][(/\ pc = "loop"
        /\ idx <= Len(games)
        /\ processed_games.is_list
        /\ Contains(processed_games.items, extract_game_id(games[idx].url)))
       => /\ pc' = "loop"
          /\ idx' = idx + 1
          /\ UNCHANGED <<processed_games, last_rating_dict, alert_info,
                         new_game_found, pending, events, delivered, lastPost, failed,
                         file, committed>>]_vars

\* The second occurrence of an id in one batch has been passed over.
C3_Witness ==
    /\ pc = "loop"
    /\ idx = 3
    /\ games[1].url = games[2].url
    /\ processed_games.items = <<extract_game_id(games[1].url)>>
    /\ delivered[extract_game_id(games[1].url)] = 1

\* C4: the rating change sent for a new game is the reported change when
\* there is one (0 included), else rating minus the category's baseline when
\* there is a baseline, else 0; the posted embed carries that value.
C4_RatingPrecedence ==
    [][/\ (pc = "loop" /\ pc' = "send") =>
            LET d == determine_game_details(games[idx])
                category == categorize_time_control(d.raw_time_control)
                expected ==
                    IF d.raw_rating_change # None THEN d.raw_rating_change[1]
                    ELSE IF category \in DOMAIN last_rating_dict
                    THEN d.current_rating - last_rating_dict[category]
                    ELSE 0
            IN Val(pending').rating_change = expected
       /\ (pc = "send" /\ delivered' # delivered) =>
            /\ lastPost' # None
            /\ Val(lastPost').url = Val(pending).game_url
            /\ Val(lastPost').rating_change = Val(pending).rating_change]_vars

\* A game without a reported change was posted with rating minus baseline
\* (1200 - 1215), the baseline having been set by a game that reported 0.
C4_Witness ==
    /\ lastPost # None
    /\ Val(lastPost).url = GameA.url
    /\ Val(lastPost).rating_change = -15

\* C5: a game whose delivery failed has its id and a baseline for its
\* category in the state committed at the end of the run (unless a request
\* raised or git itself failed).
EnvironmentFailures ==
    {"send_raised", "delete_raised", "league_post_raised", "git_failed"}
C5_FailedDeliveryStateCommitted ==
    (pc = "idle" /\ outcome \notin EnvironmentFailures) =>
        \A f \in failed :
            /\ f.game_id \in IdsOf(CommittedData)
            /\ f.category \in DOMAIN CommittedData.last_rating

\* C6: for one period end time the deadline alert is emitted at most once,
\* however many runs observe the last day.
C6_AlertOncePerPeriod == \A t \in EndTimes : alerts[t] <= 1

\* C7: a league message is posted only in a run that found a new game.
C7_LeaguePostNeedsNewGame == league_posts > 0 => new_game_found

\* C8: without a standing the run goes from the league step on to the
\* commit, and no league message is deleted.
C8_NoStandingStillCommits ==
    [][(pc = "league_update" /\ IsNone(league_info))
       => (pc' = "commit" /\ league_msgs' = league_msgs)]_vars

\* C9: when the game fetch fails or yields nothing, the run ends there and
\* neither the state file, the committed state nor the webhook's messages
\* change.
FetchedNothing == {"gone", "index_error", "no_archives", "page_error", "no_games"}
C9_FetchFailureChangesNothing ==
    [][(pc = "fetch_games" /\ fetch_status' \in FetchedNothing)
       => /\ pc' = "idle"
          /\ outcome' = "no_games"
          /\ UNCHANGED <<file, committed, delivered, lastPost, league_msgs,
                         next_message_id, alerts, league_posts>>]_vars

\* A second run ended on a failed archive page fetch, with processed ids
\* in the committed state.
C9_Witness ==
    /\ pc = "idle"
    /\ outcome = "no_games"
    /\ fetch_status = "page_error"
    /\ IdsOf(CommittedData) # {}
    /\ file = committed

\* C10: a run started on a missing, non-JSON, non-object or wrongly shaped
\* state file proceeds as from the empty state: no processed ids, no
\* baselines, no alert record, and no exception.
WellFormedFile(f) ==
    /\ f.kind = "dict"
    /\ IsNone(f.data.processed_games) \/ Val(f.data.processed_games).is_list
C10_MalformedFileLoadsAsEmpty ==
    ~WellFormedFile(committed) =>
        /\ pc = "fetch_games" =>
              /\ processed_games = ListOf(<<>>)
              /\ last_rating_dict = EmptyDict
              /\ alert_info = None
        /\ outcome # "type_error"

\* C11: a delivery (game notification or league update) makes at most 3
\* POSTs; another POST follows exactly when the answer was 429 and fewer
\* than 3 were made; an accepted or otherwise refused answer, and the third
\* 429, end the delivery without an exception and the job goes on; every
\* delivery and every run comes to an end.
Delivering == pc \in {"send", "league_post"}
C11_BoundedDelivery ==
    /\ [](Delivering => attempt \in 1..MaxAttempts)
    /\ [][(Delivering /\ resp' # "none") =>
            /\ (pc' = pc) <=> (resp' = "throttled" /\ attempt < MaxAttempts)
            /\ (pc' = pc) => attempt' = attempt + 1
            /\ (pc' # pc /\ resp' # "raises") =>
                  /\ outcome' = "running"
                  /\ pc' = IF pc = "send" THEN "loop" ELSE "commit"]_vars
    /\ (Delivering ~> ~Delivering)
    /\ ((pc # "idle") ~> (pc = "idle"))

\* A game notification was given up after its third 429, and the loop
\* went on.
C11_Witness ==
    /\ pc = "loop"
    /\ resp = "throttled"
    /\ outcome = "running"
    /\ failed # {}

\* C12: in a run whose standing has no period end time, no call of
\* send_discord_webhook gets add_alert = TRUE, alert_sent is not set to
\* true (it is true only when the loaded record is still in place), and the
\* league message gets no Alert field.
EndTimeAbsent == ~IsNone(league_info) /\ IsNone(Val(league_info).endTime)
C12_NoEndTimeNoAlert ==
    EndTimeAbsent =>
        /\ \A i \in 1..Len(events) : ~events[i].add_alert
        /\ (~IsNone(alert_info) /\ Val(alert_info).alert_sent)
              => alert_info = loaded.alert_info
        /\ ~alert_needed

\* C13: when the loop of a run is over and the run before it was given the
\* same loaded state (processed ids, baselines, alert record), the same
\* fetched games and the same standing, both runs made the same sequence of
\* send_discord_webhook calls and reached the same processed ids, baselines
\* and alert record.
SameInputs(a, b) ==
    /\ a.prev_state = b.prev_state
    /\ a.ordered_games = b.ordered_games
    /\ a.standing = b.standing
C13_ReconcileDeterministic ==
    [][(/\ pc = "loop"
        /\ pc' = "league_update"
        /\ ~IsNone(recon)
        /\ SameInputs(Val(recon), Reconciliation))
       => /\ Val(recon).events = events
          /\ Val(recon).next_state = Reconciliation.next_state]_vars

\* C14: a run that loaded the empty state, fetched exactly the scenario's
\* game and got no standing ends normally (unless a request itself raised)
\* having made exactly one send_discord_webhook call, for a Win with rating
\* change 0 in category rapid, and no league post; the state file then holds
\* the game's id and the rapid baseline 1500.
RequestRaised == {"send_raised", "delete_raised", "league_post_raised"}
C14_Scenario ==
    [][(/\ pc # "idle"
        /\ pc' = "idle"
        /\ loaded = EmptyData
        /\ games = <<GameW>>
        /\ IsNone(league_info)
        /\ outcome' \notin RequestRaised)
       => /\ outcome' \in {"completed", "git_failed"}
          /\ Len(events) = 1
          /\ events[1].result = "Win"
          /\ events[1].rating_change = 0
          /\ events[1].category = "rapid"
          /\ league_posts' = 0
          /\ extract_game_id(GameW.url) \in IdsOf(load_last_game_data(file'))
          /\ DictGet(load_last_game_data(file').last_rating, "rapid") = Some(1500)]_vars

\* C15: a run that has ended exits with a non-zero status only when the
\* game fetch failed (the request raised or was answered with an error);
\* every other run exits with status 0.
FetchFailed == {"raised", "gone", "index_error", "page_error"}
C15_ExitStatus ==
    (pc = "idle" /\ runs > 0 /\ ExitStatus(outcome) # 0)
        => fetch_status \in FetchFailed

\* C16: when the loop of a run with a standing is over, the saved alert
\* record is for the standing's period end time, whether or not the run
\* found a new game: a stored end time that differs from the observed one
\* has been replaced.
C16_AlertRecordFollowsStanding ==
    [][(/\ pc = "loop"
        /\ pc' = "league_update"
        /\ ~IsNone(league_info)
        /\ ~IsNone(Val(league_info).endTime))
       => LET saved == load_last_game_data(file').alert_info
          IN /\ ~IsNone(saved)
             /\ Val(saved).league_endTime = Val(Val(league_info).endTime)]_vars

\* C18: in the committed state alert_sent is true for the stored period end
\* time exactly when the webhook has accepted a message carrying the alert
\* of that period.
AlertPosted(end_time) == end_time \in EndTimes /\ alerts[end_time] > 0
C18_AlertSentIffAlertPosted ==
    /\ \A t \in EndTimes :
          AlertPosted(t) =>
              /\ ~IsNone(CommittedData.alert_info)
              /\ Val(CommittedData.alert_info).league_endTime = t
                    => Val(CommittedData.alert_info).alert_sent
    /\ (~IsNone(CommittedData.alert_info)
          /\ Val(CommittedData.alert_info).alert_sent)
         => AlertPosted(Val(CommittedData.alert_info).league_endTime)

\* C20: when the league step is over, at most one league message exists at
\* the webhook, and a league_message_id in the state file is the id of a
\* message that exists.
C20_OneLeagueMessage ==
    pc = "commit" =>
        /\ Cardinality(league_msgs) <= 1
        /\ ~IsNone(FileData.league_message_id)
              => Val(FileData.league_message_id) \in league_msgs

\* C19: in a run that loaded no processed ids, a fetched game whose URL
\* differs from the URL of every earlier game of the batch is not passed
\* over: send_discord_webhook is called for it.
C19_DistinctUrlNotSuppressed ==
    [][(/\ pc = "loop"
        /\ idx <= Len(games)
        /\ processed_games.is_list
        /\ IdsOf(loaded) = {}
        /\ \A j \in 1..(idx - 1) : games[j].url # games[idx].url)
       => /\ pc' = "send"
          /\ Val(pending').game_url = games[idx].url]_vars

\* C17: while the loop runs, the baseline of every category is the rating
\* of the last new game of that category handled so far in this run (the
\* game being sent included; new: its id was not loaded and no earlier game
\* of the batch has it), and the loaded baseline when there is none;
\* a game without a reported change that follows a new game of its category
\* in the batch is sent with its rating minus that game's rating.
Categories == {"bullet", "blitz", "rapid", "daily", "unknown"}
CategoryOf(game) == categorize_time_control(determine_game_details(game).raw_time_control)
RatingOf(game) == determine_game_details(game).current_rating
IdAt(j) == extract_game_id(games[j].url)
NewOfCategory(category, upto) ==
    {j \in 1..upto : /\ CategoryOf(games[j]) = category
                     /\ IdAt(j) \notin IdsOf(loaded)
                     /\ \A i \in 1..(j - 1) : IdAt(i) # IdAt(j)}
Latest(S) == CHOOSE j \in S : \A k \in S : k <= j
ExpectedBaseline(category, upto) ==
    IF NewOfCategory(category, upto) # {}
    THEN Some(RatingOf(games[Latest(NewOfCategory(category, upto))]))
    ELSE DictGet(loaded.last_rating, category)
C17_BaselineTracksLastGame ==
    /\ [](pc \in {"loop", "send"} =>
            \A category \in Categories :
                DictGet(last_rating_dict, category)
                  = ExpectedBaseline(category, IF pc = "send" THEN idx ELSE idx - 1))
    /\ [][(/\ pc = "loop"
            /\ pc' = "send"
            /\ IsNone(determine_game_details(games[idx]).raw_rating_change)
            /\ NewOfCategory(CategoryOf(games[idx]), idx - 1) # {})
           => Val(pending').rating_change
                = RatingOf(games[idx])
                  - Val(ExpectedBaseline(CategoryOf(games[idx]), idx - 1))]_vars

\* GameA is being sent after GameB in one batch, with rating 1200 - 1215,
\* while the loaded blitz baseline is still in place.
C17_Witness ==
    /\ pc = "send"
    /\ idx = 2
    /\ games = <<GameB, GameA>>
    /\ loaded = AfterGameC
    /\ Val(pending).rating_change = -15
    /\ last_rating_dict = DictSet(DictSet(EmptyDict, "blitz", 900), "rapid", 1200)
====
